---- MODULE Spec2Model ----
(***************************************************************************)
(* Text chunking and extractive summarization of the research assistant:    *)
(* SemanticChunker and FixedSizeChunker (app/core/chunking.py) with the    *)
(* DocumentChunk schema that validates every chunk they build              *)
(* (app/models/schemas.py), and ExtractiveSummarizer                       *)
(* (app/core/summarization.py) with its calls of the embedding provider    *)
(* (app/core/embedding.py).                                                *)
(* A text is a sequence of one-character strings; an embedding is a        *)
(* direction of the plane; similarities and scores are in thousandths.     *)
(***************************************************************************)
EXTENDS Integers, Sequences, FiniteSets, TLC

\* ------------------------------------------------------------------------
\* Bounds of the enumerated inputs
\* ------------------------------------------------------------------------
MaxLen == 5
MaxChunk == 4
MaxIter == 5
MaxThreads == 2
MaxCalls == 3

\* ------------------------------------------------------------------------
\* Character classes of the regular expressions
\* ------------------------------------------------------------------------
Upper == {"A", "B", "C", "H", "M", "O", "S", "T", "U", "Y"}
Lower == {"a", "b", "c", "d", "e", "f", "h", "i", "j", "k", "l", "m", "n", "o",
          "r", "s", "t", "w", "y"}
Terminators == {".", "!", "?"}
Whitespace == {" ", "\n"}
IsWord(c) == c \in Upper \cup Lower

SetMin(S) == CHOOSE x \in S : \A y \in S : x <= y
SetMax(S) == CHOOSE x \in S : \A y \in S : y <= x

\* str.strip()
strip(s) ==
    LET ink == {i \in 1..Len(s) : s[i] \notin Whitespace}
    IN  IF ink = {} THEN <<>> ELSE SubSeq(s, SetMin(ink), SetMax(ink))

\* text[start:end] of Python, 0-based, negative offsets counted from the end
Slice(s, start, end) ==
    LET n  == Len(s)
        lo == IF start < 0 THEN (IF start + n < 0 THEN 0 ELSE start + n)
              ELSE (IF start > n THEN n ELSE start)
        hi == IF end < 0 THEN (IF end + n < 0 THEN 0 ELSE end + n)
              ELSE (IF end > n THEN n ELSE end)
    IN  IF lo >= hi THEN <<>> ELSE SubSeq(s, lo + 1, hi)

\* ' '.join(parts)
RECURSIVE Join(_)
Join(parts) ==
    IF parts = <<>> THEN <<>>
    ELSE IF Len(parts) = 1 THEN parts[1]
    ELSE parts[1] \o <<" ">> \o Join(Tail(parts))

\* s.split('. '): the pieces between successive non-overlapping ". "
RECURSIVE SplitDotSpaceFrom(_, _)
SplitDotSpaceFrom(s, start) ==
    LET found == {i \in start..(Len(s) - 1) : s[i] = "." /\ s[i + 1] = " "}
    IN  IF found = {} THEN <<SubSeq(s, start, Len(s))>>
        ELSE <<SubSeq(s, start, SetMin(found) - 1)>>
             \o SplitDotSpaceFrom(s, SetMin(found) + 2)
SplitDotSpace(s) == SplitDotSpaceFrom(s, 1)

\* [s for s in parts if s.strip()]
NonBlank(parts) == SelectSeq(parts, LAMBDA p : strip(p) # <<>>)

\* re.sub(r'\s+', ' ', text): a run of whitespace becomes one space
RECURSIVE CollapseRange(_, _, _)
CollapseRange(s, lo, hi) ==
    IF lo > hi THEN <<>>
    ELSE IF lo = hi
         THEN (IF s[lo] \notin Whitespace THEN <<s[lo]>>
               ELSE IF lo > 1 /\ s[lo - 1] \in Whitespace THEN <<>>
               ELSE <<" ">>)
         ELSE CollapseRange(s, lo, (lo + hi) \div 2)
              \o CollapseRange(s, (lo + hi) \div 2 + 1, hi)
CollapseWhitespace(s) == CollapseRange(s, 1, Len(s))

\* re.sub(r'([.!?])([A-Z])', r'\1 \2', text)
RECURSIVE InsertRange(_, _, _)
InsertRange(s, lo, hi) ==
    IF lo > hi THEN <<>>
    ELSE IF lo = hi
         THEN (IF s[lo] \in Terminators /\ lo < Len(s) /\ s[lo + 1] \in Upper
               THEN <<s[lo], " ">>
               ELSE <<s[lo]>>)
         ELSE InsertRange(s, lo, (lo + hi) \div 2)
              \o InsertRange(s, (lo + hi) \div 2 + 1, hi)
InsertSentenceSpace(s) == InsertRange(s, 1, Len(s))

\* mutant: runs of whitespace are not collapsed
_normalize_text_NoCollapse(text) == strip(InsertSentenceSpace(text))

_normalize_text(text) == strip(InsertSentenceSpace(CollapseWhitespace(text)))

\* sentence_pattern matches the one whitespace character at index i of t
sentence_pattern(t, i) ==
    /\ t[i] \in Whitespace
    /\ i > 1 /\ t[i - 1] \in Terminators
    /\ ~(i > 4 /\ IsWord(t[i - 4]) /\ t[i - 3] = "." /\ IsWord(t[i - 2])
               /\ t[i - 1] # "\n")
    /\ ~(i > 3 /\ t[i - 3] \in Upper /\ t[i - 2] \in Lower /\ t[i - 1] = ".")

\* sentence_pattern.split(text)
RECURSIVE PatternSplitFrom(_, _)
PatternSplitFrom(t, start) ==
    LET found == {i \in start..Len(t) : sentence_pattern(t, i)}
    IN  IF found = {} THEN <<SubSeq(t, start, Len(t))>>
        ELSE <<SubSeq(t, start, SetMin(found) - 1)>>
             \o PatternSplitFrom(t, SetMin(found) + 1)

\* the sentences of a normalized text, with the whole-text fallback
Sentences(t) ==
    LET pieces == NonBlank(PatternSplitFrom(t, 1))
        kept   == [k \in 1..Len(pieces) |-> strip(pieces[k])]
    IN  IF kept = <<>> THEN <<t>> ELSE kept

\* _get_overlap_text: the trailing sentences that fit in the overlap window
RECURSIVE OverlapSentences(_, _, _, _)
OverlapSentences(sents, k, overlap_length, ov) ==
    IF k = 0 THEN <<>>
    ELSE LET sentence_length == Len(sents[k]) + 1
         IN  IF overlap_length + sentence_length > ov THEN <<>>
             ELSE OverlapSentences(sents, k - 1, overlap_length + sentence_length, ov)
                  \o <<sents[k]>>
\* mutant: the last sentence is carried even when it exceeds the window
_get_overlap_text_AtLeastOne(sents, ov) ==
    IF OverlapSentences(sents, Len(sents), 0, ov) = <<>>
    THEN sents[Len(sents)]
    ELSE Join(OverlapSentences(sents, Len(sents), 0, ov))

_get_overlap_text(sents, ov) == Join(OverlapSentences(sents, Len(sents), 0, ov))


\* ------------------------------------------------------------------------
\* DocumentChunk (schemas.py): the field constraints and the range validator
\* ------------------------------------------------------------------------
DocumentChunk(document_id, index, chunk_text, start, end) ==
    [document_id |-> document_id, chunk_index |-> index, text |-> chunk_text,
     start_char |-> start, end_char |-> end]

ValidChunk(c) ==
    /\ c.chunk_index >= 0
    /\ Len(c.text) >= 1
    /\ c.start_char >= 0
    /\ c.end_char >= 1
    /\ c.end_char > c.start_char

\* ------------------------------------------------------------------------
\* Inputs: every short text over a small alphabet under every small
\* configuration, and the texts and configurations of the tests and of the
\* documented scenarios
\* ------------------------------------------------------------------------
Alphabet == {"A", "a", ".", " "}
EnumTexts == UNION {[1..n -> Alphabet] : n \in 0..MaxLen}

ThreeSentences ==
    <<"T", "h", "i", "s", " ", "i", "s", " ", "s", "e", "n", "t", "e", "n",
    "c", "e", " ", "o", "n", "e", ".", " ", "T", "h", "i", "s", " ", "i",
    "s", " ", "s", "e", "n", "t", "e", "n", "c", "e", " ", "t", "w", "o",
    ".", " ", "T", "h", "i", "s", " ", "i", "s", " ", "s", "e", "n", "t",
    "e", "n", "c", "e", " ", "t", "h", "r", "e", "e", ".">>
TestSentences ==
    <<"T", "e", "s", "t", " ", "s", "e", "n", "t", "e", "n", "c", "e", ".",
    " ", "A", "n", "o", "t", "h", "e", "r", " ", "s", "e", "n", "t", "e",
    "n", "c", "e", ".", " ", "Y", "e", "t", " ", "a", "n", "o", "t", "h",
    "e", "r", " ", "s", "e", "n", "t", "e", "n", "c", "e", ".">>
MrSmith ==
    <<"M", "r", ".", " ", "S", "m", "i", "t", "h", " ", "l", "e", "f", "t",
    ".", " ", "O", "k", ".">>
MrSmithLeft ==
    <<"M", "r", ".", " ", "S", "m", "i", "t", "h", " ", "l", "e", "f", "t",
    ".">>
USArmy ==
    <<"H", "e", " ", "j", "o", "i", "n", "e", "d", " ", "t", "h", "e", " ",
    "U", ".", "S", ".", " ", "A", "r", "m", "y", " ", "t", "o", "d", "a",
    "y", ".">>
Exclaimed == <<"A", "a", "!", " ", "B", "b", "!", " ", "C", "c", "!">>
Dotted == <<"a", ".", " ", "a", ".", " ", "a", ".">>
FourDotted == <<"a", ".", " ", "a", ".", " ", "a", ".", " ", "a", ".">>
Dots == <<".", " ", ".", " ", ".", " ", ".">>
Ragged == <<"a", ".", "A", "\n", "\n", " ", "b">>
Blank == <<" ", "\n", " ">>
LongWord == [i \in 1..200 |-> "A"]

Scenario(cs, ov, t) == [chunk_size |-> cs, overlap |-> ov, text |-> t]

SemanticScenarios ==
    { Scenario(50, 20, LongWord),
      Scenario(40, 10, ThreeSentences),
      Scenario(100, 20, ThreeSentences),
      Scenario(100, 20, TestSentences),
      Scenario(30, 16, TestSentences),
      Scenario(18, 16, MrSmith),
      Scenario(100, 20, MrSmithLeft),
      Scenario(100, 20, USArmy),
      Scenario(8, 4, Exclaimed),
      Scenario(9, 8, Exclaimed),
      Scenario(7, 6, Dotted),
      Scenario(7, 3, FourDotted),
      Scenario(5, 4, Dots),
      Scenario(3, 0, Ragged),
      Scenario(3, 0, Blank),
      Scenario(512, 128, <<>>),
      Scenario(512, 128, Blank),
      Scenario(512, 128, TestSentences) }

FixedScenarios ==
    { Scenario(50, 10, LongWord),
      Scenario(50, 40, ThreeSentences),
      Scenario(3, 1, Blank),
      Scenario(512, 128, <<>>),
      Scenario(512, 128, TestSentences) }

SmallConfigs == (0..MaxChunk) \X (0..MaxChunk)
ConfigsOf(scenarios) ==
    SmallConfigs \cup {<<s.chunk_size, s.overlap>> : s \in scenarios}
TextsFor(scenarios, cs, ov) ==
    (IF <<cs, ov>> \in SmallConfigs THEN EnumTexts ELSE {})
    \cup {s.text : s \in {x \in scenarios : x.chunk_size = cs /\ x.overlap = ov}}

\* ------------------------------------------------------------------------
\* State
\* ------------------------------------------------------------------------
VARIABLES
    args,           \* the arguments of the constructor call
    cls,            \* class of the constructed chunker, "none" before
    chunk_size,     \* self.chunk_size
    overlap,        \* self.overlap
    pc,             \* position of the caller / of chunk_text
    input,          \* the text argument of chunk_text
    text,           \* the local text after normalization / trimming
    sentences,      \* the local sentences
    idx,            \* the for loop's position in sentences
    current_chunk,  \* the local current_chunk
    current_length, \* the local current_length
    chunk_index,    \* the local chunk_index
    start_char,     \* the local start_char (SemanticChunker), start (Fixed)
    chunks,         \* the local chunks
    overlaps        \* the overlap_text computed at each finalized chunk

chunk_vars == <<args, cls, chunk_size, overlap, pc, input, text, sentences, idx,
                current_chunk, current_length, chunk_index, start_char, chunks,
                overlaps>>

\* ExtractiveSummarizer (app/core/summarization.py) and its calls of the
\* embedding provider (app/core/embedding.py)
VARIABLES
    s_pc,                  \* position of the caller / of summarize
    s_max_sentences,       \* self.max_sentences
    diversity_threshold,   \* self.diversity_threshold, in thousandths
    direct,                \* _select_diverse_sentences called on its own
    query,                 \* the query argument of summarize
    retrieved_texts,       \* the retrieved_texts argument of summarize
    override,              \* the max_sentences argument of summarize
    max_sentences,         \* the local max_sentences
    sentences_with_source, \* the local sentences_with_source
    provider_calls,        \* the calls of embedding_generator made so far
    logs,                  \* the records handed to logger
    embeddings,            \* sentence_embeddings, one direction per candidate
    scores,                \* scores, in thousandths
    selected,              \* the local selected
    remaining,             \* the local remaining
    summary                \* the returned value of summarize

sum_vars == <<s_pc, s_max_sentences, diversity_threshold, direct, query,
              retrieved_texts, override, max_sentences, sentences_with_source,
              provider_calls, logs, embeddings, scores, selected, remaining,
              summary>>

\* EmbeddingGenerator (app/core/embedding.py): the class, its instances and
\* the threads of the process that import the module, construct and read
VARIABLES
    imported,     \* app.core.embedding is in sys.modules, fully executed
    import_lock,  \* the thread that holds the import lock of the module, or 0
    import_error, \* the import of the module raised
    _instance,    \* EmbeddingGenerator._instance: an instance, or 0 for None
    _model,       \* _model of each instance: a handle, or 0 for None
    created,      \* the instances made by super().__new__
    loads,        \* the SentenceTransformer handles made by _load_model
    t_pc,         \* position of each thread
    t_self,       \* the instance each thread is working on, or 0
    t_seen        \* the handles each thread got from the model property

emb_vars == <<imported, import_lock, import_error, _instance, _model, created,
              loads, t_pc, t_self, t_seen>>

\* the calls made on the constructed instance by two threads
VARIABLES
    calls,   \* the calls that returned, in the order of their return
    other    \* the local variables of the thread that is not running

call_vars == <<calls, other>>

vars == <<chunk_vars, sum_vars, emb_vars, call_vars>>

locals == <<input, text, sentences, idx, current_chunk, current_length,
            chunk_index, start_char, chunks, overlaps>>

\* the threads of the process, and the instances they can make
Threads == 1..MaxThreads
Instances == 1..MaxThreads

\* the max_sentences argument of summarize: None, or an integer
NoOverride == [given |-> FALSE, value |-> 0]
Override(n) == [given |-> TRUE, value |-> n]

\* the local variables of a thread that is not inside chunk_text
NoFrame ==
    [pc |-> "ready", input |-> <<>>, text |-> <<>>, sentences |-> <<>>,
     idx |-> 0, current_chunk |-> <<>>, current_length |-> 0,
     chunk_index |-> 0, start_char |-> 0, chunks |-> <<>>, overlaps |-> <<>>]

NoArgs == [cls |-> "none", chunk_size |-> 0, overlap |-> 0]
Args(c, cs, ov) == [cls |-> c, chunk_size |-> cs, overlap |-> ov]

Init ==
    /\ args = NoArgs
    /\ cls = "none"
    /\ chunk_size = 0
    /\ overlap = 0
    /\ pc = "new"
    /\ input = <<>>
    /\ text = <<>>
    /\ sentences = <<>>
    /\ idx = 0
    /\ current_chunk = <<>>
    /\ current_length = 0
    /\ chunk_index = 0
    /\ start_char = 0
    /\ chunks = <<>>
    /\ overlaps = <<>>
    /\ s_pc = "new"
    /\ s_max_sentences = 0
    /\ diversity_threshold = 0
    /\ direct = FALSE
    /\ query = <<>>
    /\ retrieved_texts = <<>>
    /\ override = NoOverride
    /\ max_sentences = 0
    /\ sentences_with_source = <<>>
    /\ provider_calls = <<>>
    /\ logs = <<>>
    /\ embeddings = <<>>
    /\ scores = <<>>
    /\ selected = <<>>
    /\ remaining = <<>>
    /\ summary = <<>>
    /\ imported = FALSE
    /\ import_lock = 0
    /\ import_error = FALSE
    /\ _instance = 0
    /\ _model = [i \in Instances |-> 0]
    /\ created = 0
    /\ loads = 0
    /\ t_pc = [t \in Threads |-> "idle"]
    /\ t_self = [t \in Threads |-> 0]
    /\ t_seen = [t \in Threads |-> {}]
    /\ calls = <<>>
    /\ other = NoFrame

\* mutant: an overlap equal to chunk_size is let through
OverlapTooLargeStrict(cs, ov) == ov > cs

\* the configuration SemanticChunker.__init__ rejects
OverlapTooLarge(cs, ov) == ov >= cs

\* SemanticChunker.__init__
SemanticChunkerInit(cs, ov) ==
    /\ pc = "new"
    /\ args' = Args("SemanticChunker", cs, ov)
    /\ IF OverlapTooLarge(cs, ov)
       THEN /\ pc' = "config_error"
            /\ UNCHANGED <<cls, chunk_size, overlap>>
       ELSE /\ cls' = "SemanticChunker"
            /\ chunk_size' = cs
            /\ overlap' = ov
            /\ pc' = "ready"
    /\ UNCHANGED <<emb_vars, call_vars, sum_vars, locals>>

\* FixedSizeChunker.__init__
FixedSizeChunkerInit(cs, ov) ==
    /\ pc = "new"
    /\ args' = Args("FixedSizeChunker", cs, ov)
    /\ cls' = "FixedSizeChunker"
    /\ chunk_size' = cs
    /\ overlap' = ov
    /\ pc' = "ready"
    /\ UNCHANGED <<emb_vars, call_vars, sum_vars, locals>>

\* mutant: only the empty string is rejected, the text is not stripped
IsEmptyTextUnstripped(t) == t = <<>>

\* `not text or not text.strip()`
IsEmptyText(t) == t = <<>> \/ strip(t) = <<>>

\* mutant: start_char keeps the value the previous call left
InitialStartStale == start_char

\* start_char = 0 before the for loop
InitialStart == 0

\* SemanticChunker.chunk_text up to the for loop
SemanticChunkText(t) ==
    /\ cls = "SemanticChunker"
    /\ pc = "ready"
    /\ input' = t
    /\ IF IsEmptyText(t)
       THEN /\ pc' = "empty_error"
            /\ UNCHANGED <<text, sentences, idx>>
       ELSE /\ text' = _normalize_text(t)
            /\ sentences' = Sentences(_normalize_text(t))
            /\ idx' = 1
            /\ pc' = "loop"
    /\ current_chunk' = <<>>
    /\ current_length' = 0
    /\ chunk_index' = 0
    /\ start_char' = InitialStart
    /\ chunks' = <<>>
    /\ overlaps' = <<>>
    /\ UNCHANGED <<emb_vars, call_vars, sum_vars, args, cls, chunk_size, overlap>>

\* mutant: the start is not moved back over the carried overlap text
NextStartNoBackup(end_char, carried_length) == end_char

\* mutant: the start skips the separator, whatever was carried
NextStartAfterSeparator(end_char, carried_length) == end_char + 1

\* the start_char of the chunk that follows a finalized one
NextStart(end_char, carried_length) == end_char - carried_length

\* mutant: the buffer is not checked for being non-empty
MustFinalizeAnyBuffer(buffer, length, sentence_length, cs) ==
    length + sentence_length > cs

\* mutant: a chunk that would be exactly chunk_size long is finalized too
MustFinalizeAtLimit(buffer, length, sentence_length, cs) ==
    buffer # <<>> /\ length + sentence_length >= cs

\* the condition that finalizes the current chunk before a sentence
MustFinalize(buffer, length, sentence_length, cs) ==
    buffer # <<>> /\ length + sentence_length > cs

\* mutant: the sentence that triggered the finalization is not appended
SeedBufferCarryOnly(overlap_text, sentence) ==
    NonBlank(SplitDotSpace(overlap_text))

\* the buffer after a finalization: the overlap text split again on ". ",
\* then the sentence of this iteration
SeedBuffer(overlap_text, sentence) ==
    Append(NonBlank(SplitDotSpace(overlap_text)), sentence)

\* one iteration of the for loop of SemanticChunker.chunk_text
SemanticLoop ==
    /\ cls = "SemanticChunker"
    /\ pc = "loop"
    /\ idx <= Len(sentences)
    /\ LET sentence        == sentences[idx]
           sentence_length == Len(sentence)
           chunk_text      == Join(current_chunk)
           end_char        == start_char + Len(chunk_text)
           chunk           == DocumentChunk("doc1", chunk_index, chunk_text,
                                            start_char, end_char)
           overlap_text    == _get_overlap_text(current_chunk, overlap)
       IN  IF MustFinalize(current_chunk, current_length, sentence_length,
                           chunk_size)
           THEN IF ValidChunk(chunk)
                THEN /\ chunks' = Append(chunks, chunk)
                     /\ overlaps' = Append(overlaps, overlap_text)
                     /\ current_chunk' = SeedBuffer(overlap_text, sentence)
                     /\ current_length' = Len(overlap_text) + sentence_length + 1
                     /\ start_char' = NextStart(end_char, Len(overlap_text))
                     /\ chunk_index' = chunk_index + 1
                     /\ idx' = idx + 1
                     /\ pc' = "loop"
                ELSE /\ pc' = "validation_error"
                     /\ UNCHANGED <<chunks, overlaps, current_chunk,
                                    current_length, start_char, chunk_index, idx>>
           ELSE /\ current_chunk' = Append(current_chunk, sentence)
                /\ current_length' = current_length + sentence_length + 1
                /\ idx' = idx + 1
                /\ UNCHANGED <<chunks, overlaps, start_char, chunk_index, pc>>
    /\ UNCHANGED <<emb_vars, call_vars, sum_vars, args, cls, chunk_size, overlap, input, text, sentences>>

\* the final chunk and the return of SemanticChunker.chunk_text
SemanticFinal ==
    /\ cls = "SemanticChunker"
    /\ pc = "loop"
    /\ idx > Len(sentences)
    /\ LET chunk_text == Join(current_chunk)
           end_char   == start_char + Len(chunk_text)
           chunk      == DocumentChunk("doc1", chunk_index, chunk_text,
                                       start_char, end_char)
       IN  IF current_chunk # <<>>
           THEN IF ValidChunk(chunk)
                THEN /\ chunks' = Append(chunks, chunk)
                     /\ pc' = "done"
                ELSE /\ pc' = "validation_error"
                     /\ UNCHANGED chunks
           ELSE /\ pc' = "done"
                /\ UNCHANGED chunks
    /\ UNCHANGED <<emb_vars, call_vars, sum_vars, args, cls, chunk_size, overlap, input, text, sentences, idx,
                   current_chunk, current_length, chunk_index, start_char,
                   overlaps>>

\* FixedSizeChunker.chunk_text up to the while loop
FixedChunkText(t) ==
    /\ cls = "FixedSizeChunker"
    /\ pc = "ready"
    /\ input' = t
    /\ IF IsEmptyText(t)
       THEN /\ pc' = "empty_error"
            /\ UNCHANGED text
       ELSE /\ text' = strip(t)
            /\ pc' = "fixed_loop"
    /\ start_char' = 0
    /\ chunk_index' = 0
    /\ chunks' = <<>>
    /\ UNCHANGED <<emb_vars, call_vars, sum_vars, args, cls, chunk_size, overlap, sentences, idx, current_chunk,
                   current_length, overlaps>>

\* mutant: the window is one character too long
WindowEndInclusive(start, cs) == start + cs + 1

\* mutant: the window advances by chunk_size, the overlap is ignored
WindowStepNoOverlap(cs, ov) == cs

\* the end of a window and the step to the next one
WindowEnd(start, cs) == start + cs
WindowStep(cs, ov) == cs - ov

\* one iteration of the while loop of FixedSizeChunker.chunk_text
FixedLoop ==
    /\ cls = "FixedSizeChunker"
    /\ pc = "fixed_loop"
    /\ start_char < Len(text)
    /\ Len(chunks) < MaxIter
    /\ LET end        == WindowEnd(start_char, chunk_size)
           chunk_text == Slice(text, start_char, end)
           chunk      == DocumentChunk("doc1", chunk_index, chunk_text,
                                       start_char, end)
       IN  IF ValidChunk(chunk)
           THEN /\ chunks' = Append(chunks, chunk)
                /\ start_char' = start_char + WindowStep(chunk_size, overlap)
                /\ chunk_index' = chunk_index + 1
                /\ pc' = "fixed_loop"
           ELSE /\ pc' = "validation_error"
                /\ UNCHANGED <<chunks, start_char, chunk_index>>
    /\ UNCHANGED <<emb_vars, call_vars, sum_vars, args, cls, chunk_size, overlap, input, text, sentences, idx,
                   current_chunk, current_length, overlaps>>

\* the return of FixedSizeChunker.chunk_text
FixedReturn ==
    /\ cls = "FixedSizeChunker"
    /\ pc = "fixed_loop"
    /\ ~(start_char < Len(text))
    /\ pc' = "done"
    /\ UNCHANGED <<emb_vars, call_vars, sum_vars, args, cls, chunk_size, overlap, locals>>

Next ==
    \/ /\ pc = "new"
       /\ \E c \in ConfigsOf(SemanticScenarios) : SemanticChunkerInit(c[1], c[2])
    \/ /\ pc = "new"
       /\ \E c \in ConfigsOf(FixedScenarios) : FixedSizeChunkerInit(c[1], c[2])
    \/ /\ pc = "ready" /\ cls = "SemanticChunker"
       /\ \E t \in TextsFor(SemanticScenarios, chunk_size, overlap) :
              SemanticChunkText(t)
    \/ SemanticLoop
    \/ SemanticFinal
    \/ /\ pc = "ready" /\ cls = "FixedSizeChunker"
       /\ \E t \in TextsFor(FixedScenarios, chunk_size, overlap) :
              FixedChunkText(t)
    \/ FixedLoop
    \/ FixedReturn

Spec == Init /\ [][Next]_vars

\* ------------------------------------------------------------------------
\* ExtractiveSummarizer: embeddings and scores
\* ------------------------------------------------------------------------
\* Bounds of the enumerated inputs
MaxCand == 3
MaxSentences == 3

\* An embedding is a unit vector of the plane, given by its direction in
\* steps of 30 degrees; CosineTable[d + 1] is 1000 * cos(30 d degrees).
CosineTable == <<1000, 866, 500, 0, -500, -866, -1000, -866, -500, 0, 500, 866>>
Directions == 0..(Len(CosineTable) - 1)
One == CosineTable[1]

\* cosine_similarity(a, b)[0][0], in thousandths
cosine_similarity(a, b) == CosineTable[((a - b) % Len(CosineTable)) + 1]

\* the direction embed_text returns for the query; only the angle between
\* the query and a sentence enters the scores
QueryDirection == 0

\* scores: the relevance of each sentence to the query
Relevance(query_embedding, sentence_embeddings) ==
    [i \in 1..Len(sentence_embeddings) |->
        cosine_similarity(query_embedding, sentence_embeddings[i])]

Range(s) == {s[i] : i \in 1..Len(s)}
Remove(s, x) == SelectSeq(s, LAMBDA y : y # x)

\* np.argmax(scores): the first position of the maximum
ArgMaxLast(s) == SetMax({i \in 1..Len(s) : \A j \in 1..Len(s) : s[j] <= s[i]})
ArgMax(s) == SetMin({i \in 1..Len(s) : \A j \in 1..Len(s) : s[j] <= s[i]})

\* max_similarity of candidate i to the selected sentences
max_similarity(i, sel, embs) ==
    SetMax({cosine_similarity(embs[i], embs[sel[k]]) : k \in 1..Len(sel)})

\* the candidate is too similar to a selected sentence
TooSimilar(i, sel, embs, threshold) == max_similarity(i, sel, embs) > threshold

\* combined_score = relevance - 0.3 * max_similarity, in units of 1/10000
combined_score(i, sel, embs, scs) == 10 * scs[i] - 3 * max_similarity(i, sel, embs)

\* best_score = -1 and best_idx = None (0) before the for loop
NoBest == [score |-> (0 - 10) * One, idx |-> 0]

\* the for loop over remaining, from position k on
RECURSIVE ScanRemaining(_, _, _, _, _, _, _)
ScanRemaining(rem, k, best, sel, embs, scs, threshold) ==
    IF k > Len(rem) THEN best
    ELSE LET i == rem[k]
             cs == combined_score(i, sel, embs, scs)
             nb == IF TooSimilar(i, sel, embs, threshold) THEN best
                   ELSE IF cs > best.score THEN [score |-> cs, idx |-> i]
                   ELSE best
         IN  ScanRemaining(rem, k + 1, nb, sel, embs, scs, threshold)

\* max(remaining, key=lambda i: scores[i]): the first of the maxima
TopRelevance(rem, scs) ==
    rem[SetMin({k \in 1..Len(rem) : \A j \in 1..Len(rem) : scs[rem[j]] <= scs[rem[k]]})]

\* the index one iteration of the while loop adds to selected
RoundPick(rem, sel, embs, scs, threshold) ==
    LET best == ScanRemaining(rem, 1, NoBest, sel, embs, scs, threshold)
    IN  IF best.idx # 0 THEN best.idx ELSE TopRelevance(rem, scs)

\* the condition of the while loop
LoopContinuesShort(sel, max_count, rem) == Len(sel) < max_count - 1 /\ rem # <<>>
LoopContinues(sel, max_count, rem) == Len(sel) < max_count /\ rem # <<>>

\* ------------------------------------------------------------------------
\* ExtractiveSummarizer: actions
\* ------------------------------------------------------------------------
\* diversity_threshold: the default 0.8, and a stricter 0.4
DiversityThresholds == {800, 400}
\* the arguments of the constructor: every max_sentences with the default
\* threshold, every threshold with one max_sentences
SummarizerConfigs ==
    {<<ms, SetMax(DiversityThresholds)>> : ms \in 0..MaxSentences}
        \cup {<<MaxSentences - 1, dt>> : dt \in DiversityThresholds}

\* ExtractiveSummarizer(max_sentences, diversity_threshold)
ExtractiveSummarizerInit(ms, dt) ==
    /\ s_pc = "new"
    /\ s_max_sentences' = ms
    /\ diversity_threshold' = dt
    /\ s_pc' = "ready"
    /\ UNCHANGED <<emb_vars, call_vars, chunk_vars, direct, query, retrieved_texts, override,
                   max_sentences, sentences_with_source, provider_calls, logs,
                   embeddings, scores, selected, remaining, summary>>

\* the entry of _select_diverse_sentences: the most relevant sentence first
SelectFirst(scs, embs, max_count) ==
    LET best_idx == ArgMax(scs)
    IN  /\ scores' = scs
        /\ embeddings' = embs
        /\ max_sentences' = max_count
        /\ selected' = <<best_idx>>
        /\ remaining' = Remove([i \in 1..Len(scs) |-> i], best_idx)

\* _select_diverse_sentences(scores, embeddings, max_sentences) called with
\* the scores of the sentences against the query
SelectCall(embs, max_count) ==
    /\ s_pc = "ready"
    /\ direct' = TRUE
    /\ SelectFirst(Relevance(QueryDirection, embs), embs, max_count)
    /\ s_pc' = "select_loop"
    /\ UNCHANGED <<emb_vars, call_vars, chunk_vars, s_max_sentences, diversity_threshold, query,
                   retrieved_texts, override, sentences_with_source,
                   provider_calls, logs, summary>>

\* one iteration of the while loop
SelectRound ==
    /\ s_pc = "select_loop"
    /\ LoopContinues(selected, max_sentences, remaining)
    /\ LET best_idx == RoundPick(remaining, selected, embeddings, scores,
                                 diversity_threshold)
       IN  /\ selected' = Append(selected, best_idx)
           /\ remaining' = Remove(remaining, best_idx)
    /\ UNCHANGED <<emb_vars, call_vars, chunk_vars, s_pc, s_max_sentences, diversity_threshold,
                   direct, query, retrieved_texts, override, max_sentences,
                   sentences_with_source, provider_calls, logs, embeddings,
                   scores, summary>>

\* the return of _select_diverse_sentences
SelectReturn ==
    /\ s_pc = "select_loop"
    /\ ~LoopContinues(selected, max_sentences, remaining)
    /\ s_pc' = IF direct THEN "select_done" ELSE "assemble"
    /\ UNCHANGED <<emb_vars, call_vars, chunk_vars, s_max_sentences, diversity_threshold, direct,
                   query, retrieved_texts, override, max_sentences,
                   sentences_with_source, provider_calls, logs, embeddings,
                   scores, selected, remaining, summary>>

\* ------------------------------------------------------------------------
\* ExtractiveSummarizer.summarize
\* ------------------------------------------------------------------------
MaxTexts == 2
MinSentenceLength == 20

NoRelevantContent ==
    <<"N", "o", " ", "r", "e", "l", "e", "v", "a", "n", "t", " ", "c", "o",
      "n", "t", "e", "n", "t", " ", "f", "o", "u", "n", "d", ".">>
NoSuitableSentences ==
    <<"N", "o", " ", "s", "u", "i", "t", "a", "b", "l", "e", " ", "s", "e",
      "n", "t", "e", "n", "c", "e", "s", " ", "f", "o", "u", "n", "d", " ",
      "f", "o", "r", " ", "s", "u", "m", "m", "a", "r", "i", "z", "a", "t",
      "i", "o", "n", ".">>

\* the inputs of summarize
Queries == {<<>>, <<" ">>, <<"w", "h", "y", "?">>}
\* a sentence of exactly MinSentenceLength characters
TwentyChars ==
    <<"S", "o", " ", "t", "h", "i", "s", " ", "i", "s", " ", "s", "e", "n",
      "t", "e", "n", "c", "e", ".">>
ChunkTexts == {ThreeSentences, TestSentences, MrSmith, TwentyChars}
RetrievedTexts ==
    UNION {[1..n -> ChunkTexts] : n \in 0..MaxTexts}
Overrides == {NoOverride} \cup {Override(n) : n \in 0..MaxSentences}

\* the directions the embedding model gives to sentences
ProviderDirections == {0, 1, 4}

\* max_sentences or self.max_sentences
EffectiveMax(ov, default) ==
    IF ov.given /\ ov.value # 0 THEN ov.value ELSE default

\* _extract_sentences(text)
_extract_sentences(t) ==
    LET pieces == NonBlank(PatternSplitFrom(t, 1))
    IN  [k \in 1..Len(pieces) |-> strip(pieces[k])]

\* the filter of very short sentences
LongEnoughInclusive(sentence) == Len(strip(sentence)) >= MinSentenceLength
LongEnough(sentence) == Len(strip(sentence)) > MinSentenceLength

\* the candidates of one retrieved text, with chunk_idx and sent_idx
CandidatesOf(chunk_idx, t) ==
    LET ss   == _extract_sentences(t)
        all  == [k \in 1..Len(ss) |->
                    [text |-> ss[k], chunk_idx |-> chunk_idx, sent_idx |-> k - 1]]
    IN  SelectSeq(all, LAMBDA c : LongEnough(c.text))

\* sentences_with_source built by the two nested for loops
RECURSIVE SentencesWithSourceFrom(_, _)
SentencesWithSourceFrom(rts, k) ==
    IF k > Len(rts) THEN <<>>
    ELSE CandidatesOf(k - 1, rts[k]) \o SentencesWithSourceFrom(rts, k + 1)
SentencesWithSource(rts) == SentencesWithSourceFrom(rts, 1)

\* [s['text'] for s in pool]
TextsOf(pool) == [i \in 1..Len(pool) |-> pool[i].text]

\* pool[:n] for n >= 0
FirstAll(pool, n) == pool
First(pool, n) == SubSeq(pool, 1, IF n < Len(pool) THEN n ELSE Len(pool))

\* EmbeddingGenerator.embed_text raises ValueError on such a text
IsBlank(t) == t = <<>> \/ strip(t) = <<>>

\* the key of sorted(): (chunk_idx, sent_idx)
KeyLess(a, b) ==
    \/ a.chunk_idx < b.chunk_idx
    \/ a.chunk_idx = b.chunk_idx /\ a.sent_idx < b.sent_idx

\* sorted(selected_indices, key=...): a stable sort
RECURSIVE InsertByKey(_, _, _)
InsertByKey(sorted, i, pool) ==
    IF sorted = <<>> THEN <<i>>
    ELSE IF KeyLess(pool[i], pool[Head(sorted)]) THEN <<i>> \o sorted
    ELSE <<Head(sorted)>> \o InsertByKey(Tail(sorted), i, pool)
RECURSIVE SortFrom(_, _, _)
SortFrom(sel, k, pool) ==
    IF k = 0 THEN <<>>
    ELSE InsertByKey(SortFrom(sel, k - 1, pool), sel[k], pool)
SelectionOrder(sel, pool) == sel
SortedByKey(sel, pool) == SortFrom(sel, Len(sel), pool)

ErrorLog == [level |-> "error", event |-> "Embedding failed during summarization"]
DebugLog(n, m) == [level |-> "debug", event |-> "Generated summary",
                   sentences |-> n, candidates |-> m]
EmbedTextCall(t) == [op |-> "embed_text", texts |-> <<t>>]
EmbedBatchCall(ts) == [op |-> "embed_batch", texts |-> ts]

\* summarize(query, retrieved_texts, max_sentences) up to the try block
SummarizeCall(q, rts, ov) ==
    /\ s_pc = "ready"
    /\ direct' = FALSE
    /\ query' = q
    /\ retrieved_texts' = rts
    /\ override' = ov
    /\ max_sentences' = EffectiveMax(ov, s_max_sentences)
    /\ LET pool == SentencesWithSource(rts)
       IN  IF rts = <<>>
           THEN /\ summary' = NoRelevantContent
                /\ s_pc' = "returned"
                /\ UNCHANGED sentences_with_source
           ELSE IF pool = <<>>
           THEN /\ summary' = NoSuitableSentences
                /\ s_pc' = "returned"
                /\ UNCHANGED sentences_with_source
           ELSE /\ sentences_with_source' = pool
                /\ s_pc' = "embed"
                /\ UNCHANGED summary
    /\ UNCHANGED <<emb_vars, call_vars, chunk_vars, s_max_sentences, diversity_threshold,
                   provider_calls, logs, embeddings, scores, selected, remaining>>

\* the calls of the try block made before `failing` raises
CallsUntil(failing, q, pool) ==
    IF failing = "embed_text" THEN <<EmbedTextCall(q)>>
    ELSE <<EmbedTextCall(q), EmbedBatchCall(TextsOf(pool))>>

\* the try block when embed_text or embed_batch raises: the except branch
EmbeddingFails(failing) ==
    /\ s_pc = "embed"
    /\ IsBlank(query) => failing = "embed_text"
    /\ provider_calls' = provider_calls \o CallsUntil(failing, query, sentences_with_source)
    /\ logs' = Append(logs, ErrorLog)
    /\ summary' = Join(TextsOf(First(sentences_with_source, max_sentences)))
    /\ s_pc' = "returned"
    /\ UNCHANGED <<emb_vars, call_vars, chunk_vars, s_max_sentences, diversity_threshold, direct,
                   query, retrieved_texts, override, max_sentences,
                   sentences_with_source, embeddings, scores, selected, remaining>>

\* the try block when the provider answers, the scores and the entry of
\* _select_diverse_sentences; f is the model's direction of each text
Rank(f) ==
    /\ s_pc = "embed"
    /\ ~IsBlank(query)
    /\ provider_calls' = provider_calls \o
                         CallsUntil("none", query, sentences_with_source)
    /\ LET embs == [i \in 1..Len(sentences_with_source) |->
                       f[sentences_with_source[i].text]]
       IN  SelectFirst(Relevance(QueryDirection, embs), embs, max_sentences)
    /\ s_pc' = "select_loop"
    /\ UNCHANGED <<emb_vars, call_vars, chunk_vars, s_max_sentences, diversity_threshold, direct,
                   query, retrieved_texts, override, sentences_with_source,
                   logs, summary>>

\* the sort, the join and the return of summarize
Assemble ==
    /\ s_pc = "assemble"
    /\ LET selected_indices == SortedByKey(selected, sentences_with_source)
           summary_sentences == [k \in 1..Len(selected_indices) |->
                                    sentences_with_source[selected_indices[k]].text]
       IN  /\ summary' = Join(summary_sentences)
           /\ logs' = Append(logs, DebugLog(Len(summary_sentences),
                                            Len(sentences_with_source)))
    /\ s_pc' = "returned"
    /\ UNCHANGED <<emb_vars, call_vars, chunk_vars, s_max_sentences, diversity_threshold, direct,
                   query, retrieved_texts, override, max_sentences,
                   sentences_with_source, provider_calls, embeddings, scores,
                   selected, remaining>>

NextSum ==
    \/ /\ s_pc = "new"
       /\ \E c \in SummarizerConfigs : ExtractiveSummarizerInit(c[1], c[2])
    \/ /\ s_pc = "ready"
       /\ \E n \in 1..MaxCand : \E embs \in [1..n -> Directions] :
              SelectCall(embs, s_max_sentences)
    \/ SelectRound
    \/ SelectReturn
    \/ /\ s_pc = "ready"
       /\ \E q \in Queries, rts \in RetrievedTexts, ov \in Overrides :
              SummarizeCall(q, rts, ov)
    \/ /\ s_pc = "embed"
       /\ \E failing \in {"embed_text", "embed_batch"} : EmbeddingFails(failing)
    \/ /\ s_pc = "embed"
       /\ \E f \in [Range(TextsOf(sentences_with_source)) -> ProviderDirections] :
              Rank(f)
    \/ Assemble

SpecSum == Init /\ [][NextSum]_vars

\* ------------------------------------------------------------------------
\* Repeated and interleaved calls on one instance
\* ------------------------------------------------------------------------
CallConfigs == {<<7, 6>>, <<7, 3>>}
CallTexts == {Dotted, FourDotted, Blank}
FixedCallConfigs == {<<3, 1>>}
FixedCallTexts == {Dotted, Ragged, Blank}
SummaryCallConfigs == {<<2, 800>>}
SummaryCallTexts == {<<>>, <<ThreeSentences>>}
SummaryCallOverrides == {NoOverride, Override(1)}
SummaryCallDirections == {0, 4}

Returned(op, in, outcome, result) ==
    [op |-> op, input |-> in, outcome |-> outcome, chunks |-> result]

\* chunk_text returns its list or raises: the caller has the outcome, the
\* thread is free for its next call
ChunkReturn ==
    /\ pc \in {"done", "empty_error", "validation_error"}
    /\ Len(calls) < MaxCalls
    /\ calls' = Append(calls, Returned("chunk_text", input, pc,
                                       IF pc = "done" THEN chunks ELSE <<>>))
    /\ pc' = "ready"
    /\ UNCHANGED <<emb_vars, sum_vars, args, cls, chunk_size, overlap, locals,
                   other>>

\* the interpreter switches to the other thread that calls chunk_text on the
\* same instance: each thread has its own local variables
Switch ==
    /\ pc \in {"ready", "loop", "fixed_loop", "done", "empty_error",
               "validation_error"}
    /\ other' = [pc |-> pc, input |-> input, text |-> text,
                 sentences |-> sentences, idx |-> idx,
                 current_chunk |-> current_chunk,
                 current_length |-> current_length,
                 chunk_index |-> chunk_index, start_char |-> start_char,
                 chunks |-> chunks, overlaps |-> overlaps]
    /\ pc' = other.pc
    /\ input' = other.input
    /\ text' = other.text
    /\ sentences' = other.sentences
    /\ idx' = other.idx
    /\ current_chunk' = other.current_chunk
    /\ current_length' = other.current_length
    /\ chunk_index' = other.chunk_index
    /\ start_char' = other.start_char
    /\ chunks' = other.chunks
    /\ overlaps' = other.overlaps
    /\ UNCHANGED <<emb_vars, sum_vars, args, cls, chunk_size, overlap, calls>>

\* summarize returns its string
SummaryReturn ==
    /\ s_pc = "returned"
    /\ Len(calls) < MaxCalls
    /\ calls' = Append(calls, Returned("summarize", query, s_pc, <<>>))
    /\ s_pc' = "ready"
    /\ UNCHANGED <<emb_vars, chunk_vars, other, s_max_sentences,
                   diversity_threshold, direct, query, retrieved_texts,
                   override, max_sentences, sentences_with_source,
                   provider_calls, logs, embeddings, scores, selected,
                   remaining, summary>>

NextCalls ==
    \/ /\ pc = "new" /\ s_pc = "new"
       /\ \E c \in CallConfigs : SemanticChunkerInit(c[1], c[2])
    \/ /\ pc = "new" /\ s_pc = "new"
       /\ \E c \in FixedCallConfigs : FixedSizeChunkerInit(c[1], c[2])
    \/ /\ pc = "ready" /\ cls = "SemanticChunker"
       /\ \E t \in CallTexts : SemanticChunkText(t)
    \/ SemanticLoop
    \/ SemanticFinal
    \/ /\ pc = "ready" /\ cls = "FixedSizeChunker"
       /\ \E t \in FixedCallTexts : FixedChunkText(t)
    \/ FixedLoop
    \/ FixedReturn
    \/ ChunkReturn
    \/ Switch
    \/ /\ s_pc = "new" /\ pc = "new"
       /\ \E c \in SummaryCallConfigs : ExtractiveSummarizerInit(c[1], c[2])
    \/ /\ s_pc = "ready"
       /\ \E rts \in SummaryCallTexts, ov \in SummaryCallOverrides :
              SummarizeCall(<<"w", "h", "y", "?">>, rts, ov)
    \/ /\ s_pc = "embed"
       /\ EmbeddingFails("embed_batch")
    \/ /\ s_pc = "embed"
       /\ \E d \in SummaryCallDirections :
              Rank([t \in Range(TextsOf(sentences_with_source)) |-> d])
    \/ SelectRound
    \/ SelectReturn
    \/ Assemble
    \/ SummaryReturn

SpecCalls == Init /\ [][NextCalls]_vars

\* ------------------------------------------------------------------------
\* EmbeddingGenerator: the import of app.core.embedding, the constructor and
\* the model property, one action per thread and step
\* ------------------------------------------------------------------------
\* mutant: the module builds no instance when it is imported
ImportConstructsNothing == FALSE

\* the module body ends with embedding_generator = EmbeddingGenerator()
ImportConstructs == TRUE

\* the thread may run code of the module: the module is imported, or the
\* thread is the one executing the module body under the import lock
MayRun(t) == imported \/ import_lock = t

EmbUnchanged == UNCHANGED <<chunk_vars, sum_vars, call_vars>>

\* import app.core.embedding by the first thread that needs it; the others
\* wait for the import lock
StartImport(t) ==
    /\ ~imported /\ ~import_error /\ import_lock = 0
    /\ t_pc[t] = "idle"
    /\ IF ImportConstructs
       THEN /\ import_lock' = t
            /\ t_pc' = [t_pc EXCEPT ![t] = "new_check"]
            /\ UNCHANGED imported
       ELSE /\ imported' = TRUE
            /\ UNCHANGED <<import_lock, t_pc>>
    /\ UNCHANGED <<import_error, _instance, _model, created, loads, t_self, t_seen>>
    /\ EmbUnchanged

\* a call of EmbeddingGenerator() after the import
Construct(t) ==
    /\ imported
    /\ t_pc[t] = "idle"
    /\ t_pc' = [t_pc EXCEPT ![t] = "new_check"]
    /\ UNCHANGED <<imported, import_lock, import_error, _instance, _model,
                   created, loads, t_self, t_seen>>
    /\ EmbUnchanged

\* __new__: if cls._instance is None
NewCheck(t) ==
    /\ MayRun(t)
    /\ t_pc[t] = "new_check"
    /\ IF _instance = 0
       THEN /\ t_pc' = [t_pc EXCEPT ![t] = "new_create"]
            /\ UNCHANGED t_self
       ELSE /\ t_self' = [t_self EXCEPT ![t] = _instance]
            /\ t_pc' = [t_pc EXCEPT ![t] = "init_check"]
    /\ UNCHANGED <<imported, import_lock, import_error, _instance, _model,
                   created, loads, t_seen>>
    /\ EmbUnchanged

\* __new__: cls._instance = super().__new__(cls); return cls._instance
NewCreate(t) ==
    /\ MayRun(t)
    /\ t_pc[t] = "new_create"
    /\ created < MaxThreads
    /\ created' = created + 1
    /\ _instance' = created + 1
    /\ t_self' = [t_self EXCEPT ![t] = created + 1]
    /\ t_pc' = [t_pc EXCEPT ![t] = "init_check"]
    /\ UNCHANGED <<imported, import_lock, import_error, _model, loads, t_seen>>
    /\ EmbUnchanged

\* __init__: if self._model is None
InitCheck(t) ==
    /\ MayRun(t)
    /\ t_pc[t] = "init_check"
    /\ t_pc' = [t_pc EXCEPT ![t] = IF _model[t_self[t]] = 0 THEN "init_load"
                                   ELSE "constructed"]
    /\ UNCHANGED <<imported, import_lock, import_error, _instance, _model,
                   created, loads, t_self, t_seen>>
    /\ EmbUnchanged

\* _load_model called by __init__ or by the model property: a new handle
\* is stored in self._model
LoadModel(t) ==
    /\ MayRun(t)
    /\ t_pc[t] \in {"init_load", "model_load"}
    /\ loads < MaxThreads * MaxThreads
    /\ loads' = loads + 1
    /\ _model' = [_model EXCEPT ![t_self[t]] = loads + 1]
    /\ t_pc' = [t_pc EXCEPT ![t] = IF t_pc[t] = "init_load" THEN "constructed"
                                   ELSE "model_return"]
    /\ UNCHANGED <<imported, import_lock, import_error, _instance, created,
                   t_self, t_seen>>
    /\ EmbUnchanged

\* _load_model raises RuntimeError while the module is imported: the import
\* fails and the module is not available to the process
LoadModelFails(t) ==
    /\ import_lock = t
    /\ t_pc[t] = "init_load"
    /\ import_error' = TRUE
    /\ import_lock' = 0
    /\ t_pc' = [t_pc EXCEPT ![t] = "idle"]
    /\ UNCHANGED <<imported, _instance, _model, created, loads, t_self, t_seen>>
    /\ EmbUnchanged

\* the constructor returns; at the end of the module body the import is
\* complete and the lock is released
Constructed(t) ==
    /\ MayRun(t)
    /\ t_pc[t] = "constructed"
    /\ t_pc' = [t_pc EXCEPT ![t] = "idle"]
    /\ IF import_lock = t
       THEN /\ imported' = TRUE
            /\ import_lock' = 0
       ELSE UNCHANGED <<imported, import_lock>>
    /\ UNCHANGED <<import_error, _instance, _model, created, loads, t_self, t_seen>>
    /\ EmbUnchanged

\* an access of the model property, on the instance the thread constructed
\* or on the module's embedding_generator
ModelAccess(t, i) ==
    /\ imported
    /\ t_pc[t] = "idle"
    /\ i \in {t_self[t], _instance} \ {0}
    /\ t_self' = [t_self EXCEPT ![t] = i]
    /\ t_pc' = [t_pc EXCEPT ![t] = "model_check"]
    /\ UNCHANGED <<imported, import_lock, import_error, _instance, _model,
                   created, loads, t_seen>>
    /\ EmbUnchanged

\* model: if self._model is None
ModelCheck(t) ==
    /\ t_pc[t] = "model_check"
    /\ t_pc' = [t_pc EXCEPT ![t] = IF _model[t_self[t]] = 0 THEN "model_load"
                                   ELSE "model_return"]
    /\ UNCHANGED <<imported, import_lock, import_error, _instance, _model,
                   created, loads, t_self, t_seen>>
    /\ EmbUnchanged

\* model: return self._model
ModelReturn(t) ==
    /\ t_pc[t] = "model_return"
    /\ t_seen' = [t_seen EXCEPT ![t] = @ \cup {_model[t_self[t]]}]
    /\ t_pc' = [t_pc EXCEPT ![t] = "idle"]
    /\ UNCHANGED <<imported, import_lock, import_error, _instance, _model,
                   created, loads, t_self>>
    /\ EmbUnchanged

NextEmb ==
    \E t \in Threads :
        \/ StartImport(t)
        \/ Construct(t)
        \/ NewCheck(t)
        \/ NewCreate(t)
        \/ InitCheck(t)
        \/ LoadModel(t)
        \/ LoadModelFails(t)
        \/ Constructed(t)
        \/ \E i \in Instances : ModelAccess(t, i)
        \/ ModelCheck(t)
        \/ ModelReturn(t)

SpecEmb == Init /\ [][NextEmb]_vars

\* ------------------------------------------------------------------------
\* Properties of repeated calls
\* ------------------------------------------------------------------------
SameInputSameReturn ==
    \A i, j \in 1..Len(calls) :
        /\ calls[i].op = "chunk_text"
        /\ calls[j].op = "chunk_text"
        /\ calls[i].input = calls[j].input
        => calls[i] = calls[j]

ConfigurationKept ==
    /\ pc # "new" => UNCHANGED <<cls, chunk_size, overlap>>
    /\ s_pc # "new" => UNCHANGED <<s_max_sentences, diversity_threshold>>

\* C25: no step of chunk_text or summarize, and no switch between two threads
\* calling chunk_text on the same instance, changes chunk_size, overlap,
\* max_sentences or diversity_threshold; and two calls of chunk_text with
\* the same text on the same instance return the same outcome and the same
\* chunks, whatever calls returned before them or ran between their steps.
C25_NoCrossCallState == []SameInputSameReturn /\ [][ConfigurationKept]_vars

\* a call, a call with another text, then the first text again, with two
\* chunks returned, while the other thread is inside the for loop
C25_Witness ==
    /\ Len(calls) = 3
    /\ calls[1].op = "chunk_text"
    /\ calls[1].input = calls[3].input
    /\ calls[2].input # calls[1].input
    /\ Len(calls[1].chunks) >= 2
    /\ other.pc = "loop"
    /\ other.idx > 1

\* ------------------------------------------------------------------------
\* Properties of EmbeddingGenerator
\* ------------------------------------------------------------------------
\* C24: under every interleaving of constructions and accesses of the model
\* property by the threads of the process, at most one instance exists, the
\* model is loaded at most once, and every thread works on that instance and
\* gets that one handle.
C24_LoadedOnce ==
    /\ created <= 1
    /\ loads <= 1
    /\ \A t \in Threads : t_self[t] \in {0, _instance}
    /\ \A i \in Instances : _model[i] \in {0, 1}
    /\ \A t \in Threads : t_seen[t] \subseteq {1}

\* two threads at work at once after the import, one in the constructor and
\* one in the model property, a handle already handed out
C24_Witness ==
    \E t, u \in Threads :
        /\ t # u
        /\ t_pc[t] = "init_check"
        /\ t_pc[u] = "model_return"
        /\ t_seen[t] = {1}
        /\ loads = 1

\* ------------------------------------------------------------------------
\* Properties
\* ------------------------------------------------------------------------
Semantic == cls = "SemanticChunker"
Fixed == cls = "FixedSizeChunker"
Called == pc \notin {"new", "ready", "config_error"}
SemanticDone == Semantic /\ pc = "done"
FixedDone == Fixed /\ pc = "done"
WhitespaceOnly(t) == \A i \in 1..Len(t) : t[i] \in Whitespace

IsPrefix(p, s) == Len(p) <= Len(s) /\ SubSeq(s, 1, Len(p)) = p
IsSuffix(p, s) == Len(p) <= Len(s) /\ SubSeq(s, Len(s) - Len(p) + 1, Len(s)) = p

\* C1: for every input whose trimmed text is non-empty, SemanticChunker.chunk_text
\* raises nothing and returns at least one chunk, and the chunk_index values of
\* the list are 0, 1, ..., N-1 in list order.
C1_SequentialIndices ==
    Semantic /\ Called /\ ~WhitespaceOnly(input) =>
        /\ pc \in {"loop", "done"}
        /\ \A k \in 1..Len(chunks) : chunks[k].chunk_index = k - 1
        /\ pc = "done" => Len(chunks) >= 1

C1_Witness ==
    /\ SemanticDone
    /\ Len(chunks) >= 3
    /\ chunks[3].chunk_index = 2

\* C2: SemanticChunker.chunk_text on a text longer than chunk_size creates more
\* than one chunk (the test: 200 characters, chunk_size=50, overlap=20).
C2_LongTextManyChunks ==
    SemanticDone /\ Len(text) > chunk_size => Len(chunks) > 1

\* C3: start_char and end_char of every chunk of SemanticChunker.chunk_text are
\* offsets into the normalized text: normalized_text[start_char:end_char] is
\* the chunk's text.
C3_OffsetsIntoNormalizedText ==
    SemanticDone =>
        \A k \in 1..Len(chunks) :
            Slice(text, chunks[k].start_char, chunks[k].end_char) = chunks[k].text

\* the first chunk's text followed, for each later chunk, by the part of its
\* text that lies beyond the end_char of the chunk before it
RECURSIVE NonOverlappingConcat(_, _)
NonOverlappingConcat(cs, k) ==
    IF k = 0 THEN <<>>
    ELSE IF k = 1 THEN cs[1].text
    ELSE NonOverlappingConcat(cs, k - 1)
         \o Slice(cs[k].text, cs[k - 1].end_char - cs[k].start_char,
                  Len(cs[k].text))

\* C4: for a document longer than chunk_size, the first chunk's text followed by
\* the non-overlapping portion of each later chunk is the normalized text.
C4_RoundTrip ==
    SemanticDone /\ Len(text) > chunk_size =>
        NonOverlappingConcat(chunks, Len(chunks)) = text

\* C5 as stated: whenever overlap > 0, every chunk except the first starts
\* strictly before the end_char of the chunk before it.
C5_StrictBackReference ==
    SemanticDone /\ overlap > 0 =>
        \A k \in 2..Len(chunks) : chunks[k].start_char < chunks[k - 1].end_char

\* C5 as amended: a chunk never starts beyond the end_char of the chunk before
\* it, and it starts strictly before it exactly when the overlap text carried
\* out of that chunk is non-empty; a chunk whose last sentences do not fit in
\* the overlap window carries nothing, and the next chunk starts at its end_char.
C5_BackReferenceWhenCarried ==
    Semantic =>
        /\ Len(overlaps) = chunk_index
        /\ \A k \in 2..Len(chunks) :
            /\ chunks[k].start_char <= chunks[k - 1].end_char
            /\ chunks[k].start_char < chunks[k - 1].end_char
                   <=> overlaps[k - 1] # <<>>
            /\ overlaps[k - 1] # <<>> =>
                   /\ Len(overlaps[k - 1]) + 1 <= overlap
                   /\ IsSuffix(overlaps[k - 1], chunks[k - 1].text)

C5_Witness ==
    /\ SemanticDone
    /\ overlap > 0
    /\ Len(chunks) >= 3
    /\ chunks[2].start_char < chunks[1].end_char
    /\ chunks[3].start_char = chunks[2].end_char

\* the documented scenario: chunk_size=40, overlap=10, three sentences
ScenarioDone ==
    /\ SemanticDone
    /\ chunk_size = 40
    /\ overlap = 10
    /\ input = ThreeSentences

\* chunk k starts with a sentence that the chunk before it ends with
SharesSentence(k) ==
    \E i \in 1..Len(sentences) :
        /\ IsPrefix(sentences[i], chunks[k].text)
        /\ IsSuffix(sentences[i], chunks[k - 1].text)

\* C6 as stated: the scenario yields at least 2 chunks and every chunk after the
\* first starts with a trailing sentence of the chunk before it.
C6_ScenarioSharesSentence ==
    ScenarioDone =>
        /\ Len(chunks) >= 2
        /\ \A k \in 2..Len(chunks) : SharesSentence(k)

\* C6 as amended: the scenario yields 3 chunks, one sentence each in order, and
\* no chunk after the first starts with a sentence of the chunk before it: no
\* sentence of 21 to 23 characters fits the overlap window of 10.
C6_ScenarioNoSharedSentence ==
    ScenarioDone =>
        /\ Len(chunks) = 3
        /\ \A k \in 1..3 : chunks[k].text = sentences[k]
        /\ \A k \in 2..3 : ~SharesSentence(k) /\ overlaps[k - 1] = <<>>

C6_Witness == ScenarioDone /\ Len(chunks) >= 2

\* C7: SemanticChunker(chunk_size, overlap) with overlap >= chunk_size fails
\* with the configuration error and yields no instance; with
\* overlap < chunk_size it yields an instance that holds the two arguments.
C7_OverlapBelowChunkSize ==
    args.cls = "SemanticChunker" =>
        /\ args.overlap >= args.chunk_size => pc = "config_error" /\ cls = "none"
        /\ args.overlap < args.chunk_size =>
               /\ pc # "config_error"
               /\ Semantic
               /\ chunk_size = args.chunk_size
               /\ overlap = args.overlap

C7_Witness ==
    /\ args.cls = "SemanticChunker"
    /\ args.overlap = args.chunk_size
    /\ args.chunk_size > 0
    /\ pc = "config_error"

\* C8: chunk_text of SemanticChunker and of FixedSizeChunker fails with the
\* empty-text error exactly when the text is empty or whitespace-only, and no
\* chunk exists in that case.
C8_EmptyTextRejected ==
    Called =>
        /\ WhitespaceOnly(input) <=> pc = "empty_error"
        /\ pc = "empty_error" => chunks = <<>> /\ text = <<>>

C8_Witness ==
    /\ Semantic
    /\ pc = "empty_error"
    /\ input # <<>>

C8_WitnessFixed ==
    /\ Fixed
    /\ pc = "empty_error"
    /\ input # <<>>

\* C9: chunk_text of SemanticChunker builds no chunk the schema rejects, and
\* every chunk has start_char >= 0, end_char > start_char and
\* end_char <= the length of the normalized text.
C9_OffsetsInRange ==
    Semantic =>
        /\ pc # "validation_error"
        /\ \A k \in 1..Len(chunks) :
            /\ chunks[k].start_char >= 0
            /\ chunks[k].end_char > chunks[k].start_char
            /\ chunks[k].end_char <= Len(text)

C9_Witness ==
    /\ SemanticDone
    /\ Len(chunks) >= 2
    /\ overlaps[1] # <<>>
    /\ chunks[Len(chunks)].end_char = Len(text)

\* C10 as stated: every chunk of FixedSizeChunker.chunk_text but the final one
\* has exactly chunk_size characters, and none has more.
C10_OnlyFinalShorter ==
    FixedDone =>
        \A k \in 1..Len(chunks) :
            /\ Len(chunks[k].text) <= chunk_size
            /\ k < Len(chunks) => Len(chunks[k].text) = chunk_size

\* C10 as amended: no chunk has more than chunk_size characters, and a chunk has
\* exactly chunk_size characters when its window fits in the trimmed text
\* (start_char + chunk_size <= length); every chunk that starts later is
\* shorter, which with overlap > 0 can be several chunks, not the final one only.
C10_ShorterWhereWindowOverruns ==
    Fixed =>
        \A k \in 1..Len(chunks) :
            /\ Len(chunks[k].text) <= chunk_size
            /\ Len(chunks[k].text) = chunk_size
                   <=> chunks[k].start_char + chunk_size <= Len(text)

C10_Witness ==
    /\ FixedDone
    /\ Len(chunks) >= 3
    /\ Len(chunks[1].text) = chunk_size
    /\ Len(chunks[Len(chunks) - 1].text) < chunk_size
    /\ Len(chunks[Len(chunks)].text) < Len(chunks[Len(chunks) - 1].text)

\* ceil(a / b) for a >= 0, b > 0
CeilDiv(a, b) == (a + b - 1) \div b

\* C11 as stated: on a trimmed text of L >= chunk_size characters, with
\* 0 <= overlap < chunk_size, FixedSizeChunker.chunk_text returns exactly
\* ceil((L - chunk_size) / (chunk_size - overlap)) + 1 chunks.
C11_CountFromLastFullWindow ==
    FixedDone /\ overlap < chunk_size /\ Len(text) >= chunk_size =>
        Len(chunks) = CeilDiv(Len(text) - chunk_size, chunk_size - overlap) + 1

\* C11 as amended: with 0 <= overlap < chunk_size, FixedSizeChunker.chunk_text
\* returns exactly ceil(L / (chunk_size - overlap)) chunks, one per start offset
\* below L; for chunk_size=50, overlap=10, L=200 that is 5 chunks.
C11_CountFromStartOffsets ==
    FixedDone /\ overlap < chunk_size =>
        /\ Len(chunks) = CeilDiv(Len(text), chunk_size - overlap)
        /\ \A k \in 1..Len(chunks) :
               chunks[k].start_char = (k - 1) * (chunk_size - overlap)
        /\ chunk_size = 50 /\ overlap = 10 /\ Len(text) = 200 => Len(chunks) = 5

C11_Witness ==
    /\ FixedDone
    /\ chunk_size = 50
    /\ overlap = 10
    /\ Len(text) = 200
    /\ Len(chunks) = 5

\* ------------------------------------------------------------------------
\* Properties of _select_diverse_sentences
\* ------------------------------------------------------------------------
\* _select_diverse_sentences has returned (to the caller, or into summarize)
SelectReturned == s_pc \in {"select_done", "assemble"}
\* _select_diverse_sentences has made its first choice
Selecting == s_pc \in {"select_loop", "select_done", "assemble"}
NoRepeats(s) == \A i, j \in 1..Len(s) : s[i] = s[j] => i = j
Min(a, b) == IF a < b THEN a ELSE b
Last(s) == s[Len(s)]

\* C12 as stated: _select_diverse_sentences never returns more than max_count
\* indices and never returns an index twice, for every max_count and every
\* non-empty candidate set.
C12_AtMostMaxCountNoRepeats ==
    SelectReturned =>
        /\ Len(selected) <= max_sentences
        /\ NoRepeats(selected)

\* C13: the first index returned by _select_diverse_sentences has the maximum
\* relevance score, and no candidate before it has the same score.
C13_FirstIsArgMax ==
    Selecting =>
        /\ \A i \in 1..Len(scores) : scores[i] <= scores[selected[1]]
        /\ \A i \in 1..(selected[1] - 1) : scores[i] < scores[selected[1]]

\* the selector returned, the maximum score is shared by a later candidate
C13_Witness ==
    /\ s_pc = "select_done"
    /\ Len(scores) = 3
    /\ selected[1] = 2
    /\ scores[3] = scores[2]
    /\ scores[1] < scores[2]

\* the remaining candidates that the round does not skip
NotSkipped(rem, sel, embs, threshold) ==
    {i \in Range(rem) : ~TooSimilar(i, sel, embs, threshold)}

\* C19 as stated: in a round where at least one remaining candidate is not
\* over the diversity threshold, the index picked is a non-skipped candidate
\* of highest combined_score, the lowest index on ties; a candidate over the
\* threshold is not picked in such a round.
C19_PicksBestNotSkipped ==
    [][s_pc = "select_loop" /\ selected' # selected =>
        LET ok == NotSkipped(remaining, selected, embeddings, diversity_threshold)
            cs(i) == combined_score(i, selected, embeddings, scores)
            pick == Last(selected')
        IN  ok # {} =>
                /\ pick \in ok
                /\ \A j \in ok : cs(j) <= cs(pick)
                /\ \A j \in ok : cs(j) = cs(pick) => pick <= j]_vars

\* C20: for N >= 1 candidates and max_count >= 1 the selector returns exactly
\* min(max_count, N) indices; while it loops it can always go on or return;
\* every round moves exactly one index from remaining to selected, and when
\* every remaining candidate is over the diversity threshold that index is
\* the first remaining candidate of highest relevance.
C20_FillsToMinimum ==
    /\ [](SelectReturned /\ max_sentences >= 1 =>
              Len(selected) = Min(max_sentences, Len(scores)))
    /\ [](s_pc = "select_loop" => ENABLED SelectRound \/ ENABLED SelectReturn)
    /\ [][s_pc = "select_loop" /\ s_pc' = "select_loop" =>
            LET pick == Last(selected')
            IN  /\ selected' = Append(selected, pick)
                /\ pick \in Range(remaining)
                /\ pick \notin Range(selected)
                /\ remaining' = Remove(remaining, pick)
                /\ NotSkipped(remaining, selected, embeddings,
                              diversity_threshold) = {} =>
                       \A j \in Range(remaining) :
                           /\ scores[j] <= scores[pick]
                           /\ scores[j] = scores[pick] => pick <= j]_vars

\* the selector returned two of three candidates, the second one taken in a
\* round where both remaining candidates were over the diversity threshold
C20_Witness ==
    /\ s_pc = "select_done"
    /\ Len(scores) = 3
    /\ max_sentences = 2
    /\ Len(selected) = 2
    /\ NotSkipped(<<selected[2]>> \o remaining, <<selected[1]>>, embeddings,
                  diversity_threshold) = {}

\* ------------------------------------------------------------------------
\* Properties of summarize
\* ------------------------------------------------------------------------
\* summarize was called
Summarizing == ~direct /\ s_pc \notin {"new", "ready"}
\* summarize returned the joined sentences of the selector's choice
RankedReturn == Summarizing /\ s_pc = "returned" /\ selected # <<>>

\* C14: the ranked summary is the texts of the selected candidates in
\* ascending (chunk_idx, sent_idx) order, joined by single spaces, whatever
\* the order of selection.
C14_DocumentOrder ==
    RankedReturn =>
        \E p \in [1..Len(selected) -> Range(selected)] :
            /\ \A k \in 1..(Len(selected) - 1) :
                   KeyLess(sentences_with_source[p[k]], sentences_with_source[p[k + 1]])
            /\ summary = Join([k \in 1..Len(selected) |->
                                  sentences_with_source[p[k]].text])

\* a ranked summary of three sentences picked in another order than the
\* order of the document
C14_Witness ==
    /\ RankedReturn
    /\ Len(selected) = 3
    /\ selected[1] > selected[2]
    /\ selected[2] < selected[3]

\* the chunk texts with a sentence longer than MinSentenceLength
WithLongSentence ==
    {t \in ChunkTexts :
        LET ss == _extract_sentences(t)
        IN  \E j \in 1..Len(ss) : Len(ss[j]) > MinSentenceLength}
\* no sentence of the retrieved texts is longer than MinSentenceLength
PoolEmpty(rts) == \A k \in 1..Len(rts) : rts[k] \notin WithLongSentence

\* C15: with retrieved_texts = [] or no extracted sentence longer than 20
\* characters, summarize returns at once one of its two non-empty sentinel
\* strings, having called the embedding provider not at all.
C15_SentinelWithoutProvider ==
    Summarizing /\ PoolEmpty(retrieved_texts) =>
        /\ s_pc = "returned"
        /\ summary = IF retrieved_texts = <<>> THEN NoRelevantContent
                     ELSE NoSuitableSentences
        /\ summary # <<>>
        /\ provider_calls = <<>>
        /\ logs = <<>>

\* texts were retrieved, the longest sentence has exactly 20 characters
C15_Witness ==
    /\ Summarizing
    /\ retrieved_texts = <<TwentyChars, MrSmith>>
    /\ summary = NoSuitableSentences

\* the provider was called and no embeddings came back
EmbeddingFailed == Summarizing /\ provider_calls # <<>> /\ embeddings = <<>>

\* C16: with a non-empty pool and a failing embedding call, summarize has
\* returned the first max_sentences candidate texts in pool order, joined by
\* single spaces, and handed the failure to logger.error.
C16_FallbackOnFailure ==
    EmbeddingFailed =>
        /\ s_pc = "returned"
        /\ sentences_with_source # <<>>
        /\ summary = Join([k \in 1..Min(max_sentences, Len(sentences_with_source)) |->
                              sentences_with_source[k].text])
        /\ \E k \in 1..Len(logs) : logs[k].level = "error"

\* embed_batch failed with more candidates than max_sentences
C16_Witness ==
    /\ EmbeddingFailed
    /\ Len(provider_calls) = 2
    /\ max_sentences = 2
    /\ Len(sentences_with_source) > 2
    /\ summary # <<>>

\* C17 as stated: no empty or whitespace-only string, query or sentence, is
\* handed to embed_text or embed_batch.
C17_NoBlankToProvider ==
    \A k \in 1..Len(provider_calls) :
        \A j \in 1..Len(provider_calls[k].texts) :
            ~IsBlank(provider_calls[k].texts[j])

\* ------------------------------------------------------------------------
\* Properties of SemanticChunker.chunk_text on short documents
\* ------------------------------------------------------------------------
\* C18: when the normalized text is no longer than chunk_size, chunk_text
\* returns exactly one chunk, with chunk_index 0, start_char 0 and the whole
\* normalized text.
C18_ShortTextOneChunk ==
    SemanticDone /\ Len(text) <= chunk_size =>
        /\ Len(chunks) = 1
        /\ chunks[1].chunk_index = 0
        /\ chunks[1].start_char = 0
        /\ chunks[1].text = text

\* a text of two sentences that fills chunk_size exactly
C18_Witness ==
    /\ SemanticDone
    /\ Len(text) = chunk_size
    /\ Len(sentences) = 2
    /\ Len(chunks) = 1

\* ------------------------------------------------------------------------
\* Properties of the overlap carry-over and of the segmentation
\* ------------------------------------------------------------------------
\* C21 as stated: the chunk that follows a finalized chunk begins with the
\* overlap text carried out of it, verbatim, and that overlap text is a
\* suffix of the finalized chunk's text.
C21_NextChunkBeginsWithCarry ==
    SemanticDone =>
        \A k \in 1..Len(overlaps) :
            /\ IsSuffix(overlaps[k], chunks[k].text)
            /\ IsPrefix(overlaps[k], chunks[k + 1].text)

\* C22 as stated: "He joined the U.S. Army today." and "Mr. Smith left." are
\* each kept as one sentence by the segmentation of chunk_text.
C22_AbbreviationsNotSplit ==
    Semantic /\ pc \in {"loop", "done"} /\ input \in {USArmy, MrSmithLeft} =>
        Len(sentences) = 1

\* chunk_text has normalized and segmented its text
Segmented == Semantic /\ pc \in {"loop", "done", "validation_error"}

\* C23: for every input that is not blank, the segmentation yields at least
\* one sentence, every sentence is non-empty and has no whitespace at either
\* end, and the sentences joined by single spaces are the normalized text.
C23_SentencesRebuildText ==
    Segmented =>
        /\ sentences # <<>>
        /\ \A k \in 1..Len(sentences) :
               /\ sentences[k] # <<>>
               /\ strip(sentences[k]) = sentences[k]
        /\ Join(sentences) = text
        /\ text = _normalize_text(input)

\* a text with a run of whitespace and a missing space, of two sentences
C23_Witness ==
    /\ Segmented
    /\ input = Ragged
    /\ Len(sentences) = 2
    /\ Len(text) < Len(input)

\* ------------------------------------------------------------------------
\* Properties of the loop of FixedSizeChunker.chunk_text
\* ------------------------------------------------------------------------
\* C26 as stated: every iteration of the while loop of
\* FixedSizeChunker.chunk_text strictly increases the start offset, for every
\* chunker the constructor accepts, overlap >= chunk_size included.
C26_StartStrictlyIncreases ==
    [][Fixed /\ pc = "fixed_loop" /\ pc' = "fixed_loop" =>
           start_char' > start_char]_vars

\* ------------------------------------------------------------------------
\* Properties of the lengths of summaries and of chunks
\* ------------------------------------------------------------------------
\* the cap of a call of summarize: the override when one is supplied, the
\* configured max_sentences otherwise
EffectiveCap == IF override.given THEN override.value ELSE s_max_sentences
\* summarize returned a ranked or a fallback summary, not a sentinel
SummaryReturned ==
    /\ Summarizing
    /\ s_pc = "returned"
    /\ sentences_with_source # <<>>

\* C27 as stated: a ranked or fallback summary has no more sentences than
\* the max_sentences override when one is supplied, 0 included, and than the
\* configured max_sentences otherwise.
C27_SummaryWithinCap ==
    SummaryReturned => Len(_extract_sentences(summary)) <= EffectiveCap

\* C28 as stated: when len(sentence) + overlap < chunk_size for every
\* sentence, no chunk returned by SemanticChunker.chunk_text has a text
\* longer than chunk_size.
C28_ChunksWithinChunkSize ==
    (SemanticDone /\ \A k \in 1..Len(sentences) :
                        Len(sentences[k]) + overlap < chunk_size) =>
        \A k \in 1..Len(chunks) : Len(chunks[k].text) <= chunk_size

\* ------------------------------------------------------------------------
\* Properties of the chunks as a cover of the text
\* ------------------------------------------------------------------------
\* chunks j.. end with the sentences after the first e, cut into one
\* non-empty run of consecutive sentences per chunk
RECURSIVE CoveredFrom(_, _)
CoveredFrom(j, e) ==
    IF j > Len(chunks) THEN e = Len(sentences)
    ELSE \E e2 \in (e + 1)..Len(sentences) :
             /\ IsSuffix(Join(SubSeq(sentences, e + 1, e2)), chunks[j].text)
             /\ CoveredFrom(j + 1, e2)

\* C29: the sentences can be cut into consecutive non-empty runs, one per
\* chunk in order, such that each chunk's text ends with its run joined by
\* single spaces: every sentence is intact in a chunk, in order, and every
\* chunk has a sentence that was not carried, so there are no more chunks
\* than sentences.
C29_NoSentenceLost ==
    SemanticDone =>
        /\ CoveredFrom(1, 0)
        /\ Len(chunks) <= Len(sentences)

\* two chunks of three sentences, the second one seeded with a carry of two
\* sentences that the split on ". " altered
C29_Witness ==
    /\ SemanticDone
    /\ Len(sentences) = 3
    /\ Len(chunks) = 2
    /\ overlaps[1] # <<>>
    /\ ~IsPrefix(overlaps[1], chunks[2].text)

\* C30 as stated: every chunk returned by FixedSizeChunker.chunk_text has
\* text = trimmed_text[start_char:end_char], end_char - start_char =
\* len(text) and end_char <= len(trimmed_text).
C30_FixedOffsetsWithinText ==
    FixedDone =>
        \A k \in 1..Len(chunks) :
            /\ chunks[k].text = Slice(text, chunks[k].start_char, chunks[k].end_char)
            /\ chunks[k].end_char - chunks[k].start_char = Len(chunks[k].text)
            /\ chunks[k].end_char <= Len(text)

====
